---- MODULE Spec2Model ----
(***************************************************************************)
(* pageloadstats: a fixed-size pool of phantomjs workers (workers_pool.go) *)
(* and the GetMeasurements orchestration that borrows one worker per call  *)
(* (the package's main file).                                              *)
(*                                                                         *)
(* Threads 1..NumCallers share one workersPool.  Every step that touches   *)
(* shared memory (the mutex, a used[] flag) is an action of its own, so    *)
(* the interleavings the Go scheduler allows are the model's behaviours.   *)
(***************************************************************************)
EXTENDS Integers, Sequences, FiniteSets, TLC

\* ------------------------------------------------------------------ bounds
\* New(poolSize) is called with a poolSize in 1..MaxPoolSize
MaxPoolSize == 2
\* threads calling into the pool
NumCallers == 2
\* GetMeasurements is called with nrOfTries in -1..MaxTries
MaxTries == 2
\* Close is called at most MaxCloses times
MaxCloses == 1

\* ------------------------------------------------------- program constants
\* time.Sleep(200 * time.Millisecond) in try
SleepMs == 200
\* time.Millisecond, in time.Duration's unit (nanoseconds)
Millisecond == 1000000

Callers == 1..NumCallers
\* A *phantomjs.Phantom is identified by the slot whose Start() made it;
\* Nil is the nil pointer, Foreign a worker started outside this pool.
Nil == 0
Foreign == MaxPoolSize + 1
Handles == 0..(MaxPoolSize + 1)

VARIABLES
    size,       \* workersPool.size
    phase,      \* "new": inside New; "ready": New returned; "panicked": New panicked
    newI,       \* New's loop index (next slot to start), 1-based
    workers,    \* workersPool.workers
    used,       \* workersPool.used
    mu,         \* workersPool.mu: 0 when unlocked, else the thread holding it
    exits,      \* per slot, how many times Exit() ran on its worker
    closeI,     \* Close's loop index, 0 when no Close call is running
    closeCalls, \* how many Close calls have returned
    outstanding,\* successful getPhantom marks minus flags cleared by releasePhantom
    t,          \* per thread: position and locals of the call it is in
    history     \* whether the calls' "passed" history is recorded

vars == <<size, phase, newI, workers, used, mu, exits, closeI, closeCalls, outstanding, t,
          history>>
\* what only New and Close write
poolVars == <<size, phase, newI, workers, exits, closeI, closeCalls, history>>
Slots == 1..size

\* ------------------------------------------------------------ URL parsing
\* A raw URL is a sequence of one-character strings.
Letters == {"a", "h", "l", "n", "o", "p", "r", "t", "u"}
SchemeExtra == {"+", "-", "."}

Url_http == <<"h", "t", "t", "p", ":", "/", "/", "a">>
Url_path == <<"/", "a">>
Url_word == <<"n", "o", "t", "-", "a", "-", "u", "r", "l">>
Url_empty == <<>>
RawUrls == {Url_http, Url_path, Url_word, Url_empty}

HasPrefix(s, p) == Len(s) >= Len(p) /\ SubSeq(s, 1, Len(p)) = p

\* net/url getScheme: the scan for a leading "scheme:".
RECURSIVE getSchemeFrom(_, _)
getSchemeFrom(raw, i) ==
    IF i > Len(raw) THEN [scheme |-> <<>>, rest |-> raw, err |-> FALSE]
    ELSE IF raw[i] \in Letters THEN getSchemeFrom(raw, i + 1)
    ELSE IF raw[i] \in SchemeExtra THEN
        IF i = 1 THEN [scheme |-> <<>>, rest |-> raw, err |-> FALSE]
        ELSE getSchemeFrom(raw, i + 1)
    ELSE IF raw[i] = ":" THEN
        IF i = 1 THEN [scheme |-> <<>>, rest |-> <<>>, err |-> TRUE]
        ELSE [scheme |-> SubSeq(raw, 1, i - 1),
              rest |-> SubSeq(raw, i + 1, Len(raw)), err |-> FALSE]
    ELSE [scheme |-> <<>>, rest |-> raw, err |-> FALSE]

getScheme(raw) == getSchemeFrom(raw, 1)

\* url.ParseRequestURI(rawurl) succeeds: net/url parse(rawURL, viaRequest = true),
\* for inputs without control bytes, query, userinfo, port or escapes (none of
\* RawUrls has any), where the authority and path parsing cannot fail.
ParseRequestURI(raw) ==
    IF raw = <<>> THEN FALSE                       \* "empty url"
    ELSE IF raw = <<"*">> THEN TRUE
    ELSE LET s == getScheme(raw) IN
        IF s.err THEN FALSE                        \* "missing protocol scheme"
        ELSE IF ~HasPrefix(s.rest, <<"/">>) THEN
            s.scheme # <<>>                        \* opaque, else "invalid URI for request"
        ELSE TRUE

\* ----------------------------------------------------------- result parsing
\* What phantom.Run stored in `result`: the value the script handed to done().
\* OutNil: done() without data (the page failed to load); OutGood: one
\* response; OutBadType: loadTime is not a number; OutBadKey: a response id
\* that is no int32.
OutNil == [isNull |-> TRUE, loadTimeIsNumber |-> TRUE, loadTime |-> 0, responses |-> <<>>]
OutGood ==
    [isNull |-> FALSE, loadTimeIsNumber |-> TRUE, loadTime |-> 500,
     responses |-> <<[id |-> "1", runningTime |-> 100, status |-> 200, url |-> "http://a"]>>]
OutBadType == [isNull |-> FALSE, loadTimeIsNumber |-> FALSE, loadTime |-> 0, responses |-> <<>>]
OutBadKey ==
    [isNull |-> FALSE, loadTimeIsNumber |-> TRUE, loadTime |-> 500,
     responses |-> <<[id |-> "x", runningTime |-> 100, status |-> 200, url |-> "http://a"]>>]
EngineOutputs == {OutNil, OutGood, OutBadType, OutBadKey}

\* The zero value of PageMeasurements.
ZeroPerf == [LoadTime |-> 0, Responses |-> <<>>, LoadTimeDuration |-> 0, ThumbnailFile |-> ""]

\* A map key of responses read as int32.
KeyInt == [k \in {"1", "2"} |-> IF k = "1" THEN 1 ELSE 2]

\* time.Duration(ms) * time.Millisecond
Duration(ms) == ms * Millisecond

\* json.Marshal(result) then json.Unmarshal(jsonResult, &performance): the
\* derived fields are not on the wire and stay zero.
Unmarshal(out) ==
    IF out.isNull THEN [err |-> FALSE, perf |-> ZeroPerf]
    ELSE IF ~out.loadTimeIsNumber THEN [err |-> TRUE, perf |-> ZeroPerf]
    ELSE IF \E n \in 1..Len(out.responses) : out.responses[n].id \notin DOMAIN KeyInt
        THEN [err |-> TRUE, perf |-> ZeroPerf]
    ELSE [err |-> FALSE,
          perf |-> [LoadTime |-> out.loadTime,
                    Responses |->
                        [k \in {KeyInt[out.responses[n].id] : n \in 1..Len(out.responses)} |->
                            LET r == CHOOSE r \in {out.responses[n] : n \in 1..Len(out.responses)} :
                                        KeyInt[r.id] = k
                            IN [RunningTime |-> r.runningTime, RunningTimeDuration |-> 0,
                                Status |-> r.status, URL |-> r.url]],
                    LoadTimeDuration |-> 0,
                    ThumbnailFile |-> ""]]

\* for _, v := range performance.Responses { v.RunningTimeDuration = ... }:
\* v is a copy of the map's value, so the stored entries are what they were.
RangeSetRunningTimeDuration(responses) == responses

\* A function's two results: a *PageMeasurements (hasRes: not nil; res: what
\* it points to) and an error.  "return nil, err":
ErrReturn(e) == [hasRes |-> FALSE, res |-> ZeroPerf, err |-> e]

\* getMeasurementsInternal from phantom.Run on: ok is whether Run succeeded,
\* out what it stored in result.
Internal(ok, out, thumbnailFile) ==
    LET u == Unmarshal(out) IN
    IF ~ok THEN ErrReturn("EngineExecutionError")
    ELSE IF u.err THEN ErrReturn("MarshalError")
    ELSE [hasRes |-> TRUE,
          res |-> [u.perf EXCEPT
                      !.LoadTimeDuration = Duration(u.perf.LoadTime),
                      !.ThumbnailFile = thumbnailFile,
                      !.Responses = RangeSetRunningTimeDuration(u.perf.Responses)],
          err |-> "NoErr"]

\* ------------------------------------------------------------ thread state
ThumbDirs == {"", "d"}
\* ioutil.TempFile(dir, "thumb").Name()
TempName(dir) == IF dir = "d" THEN "d/thumb1" ELSE ""
TryValues == (-1)..MaxTries

\* A thread's record holds the locals of the call it is in.  A local is kept
\* from its assignment to the last statement that reads it, and is back at
\* its zero value after that.  acqCalls, sleeps, relCalls and runCalls count
\* the calls of fn, time.Sleep, releasePhantom and phantom.Run this call made.
\* passed is history, recorded while the call is in try: 1 once a worker was
\* released while the call slept, 2 once that was followed by another call
\* taking a worker at its first getPhantom.
IdleThread ==
    [pc |-> "idle", op |-> "none",
     rawurl |-> <<>>, nrOfTries |-> 0, thumbnailsDir |-> "",
     attempt |-> 0, acqCalls |-> 0, sleeps |-> 0,
     i |-> 0, ret |-> Nil, gerr |-> FALSE,
     phantom |-> Nil, relArg |-> Nil, relErr |-> "none", relCalls |-> 0,
     thumbnailFile |-> "", runCalls |-> 0,
     hasRes |-> FALSE, res |-> ZeroPerf, err |-> "NoErr",
     passed |-> 0]

\* New(poolSize) has allocated the pool and is about to start the workers.
InitPool ==
    /\ size \in 1..MaxPoolSize
    /\ phase = "new"
    /\ newI = 1
    /\ workers = [s \in 1..size |-> Nil]
    /\ used = [s \in 1..size |-> FALSE]
    /\ mu = 0
    /\ exits = [s \in 1..size |-> 0]
    /\ closeI = 0
    /\ closeCalls = 0
    /\ outstanding = 0
    /\ t = [c \in Callers |-> IdleThread]

Init == InitPool /\ history = FALSE

\* The same start, with the history recorded.
InitOrder == InitPool /\ history = TRUE

\* ---------------------------------------------------------------------- New
\* New_Start with the check of err left out: the loop goes on past a worker
\* that did not start and New returns the pool.
New_StartUnchecked(ok) ==
    /\ phase = "new"
    /\ workers' = [workers EXCEPT ![newI] = IF ok THEN newI ELSE Nil]
    /\ newI' = newI + 1
    /\ phase' = IF newI + 1 > size THEN "ready" ELSE "new"
    /\ UNCHANGED <<size, used, mu, exits, closeI, closeCalls, outstanding, t, history>>

\* One iteration of New's loop: phantomjs.Start() returns a worker, or an
\* error and New panics; after the last slot New returns the pool.
New_Start(ok) ==
    /\ phase = "new"
    /\ IF ok
       THEN /\ workers' = [workers EXCEPT ![newI] = newI]
            /\ newI' = newI + 1
            /\ phase' = IF newI + 1 > size THEN "ready" ELSE "new"
       ELSE /\ phase' = "panicked"
            /\ UNCHANGED <<workers, newI>>
    /\ UNCHANGED <<size, used, mu, exits, closeI, closeCalls, outstanding, t, history>>

\* -------------------------------------------------------------------- Close
Close_Call ==
    /\ phase = "ready"
    /\ closeI = 0
    /\ closeCalls < MaxCloses
    /\ closeI' = 1
    /\ UNCHANGED <<size, phase, newI, workers, used, mu, exits, closeCalls, outstanding, t,
                   history>>

\* CloseIteration with the loop started one slot late.
CloseIterationFromSecond(s) ==
    IF workers[s] = Nil \/ s = 1 THEN exits ELSE [exits EXCEPT ![s] = @ + 1]

\* The body of Close's loop for slot s: nil is skipped, else Exit().
CloseIteration(s) ==
    IF workers[s] = Nil THEN exits ELSE [exits EXCEPT ![s] = @ + 1]

\* One iteration of Close's loop; past the last slot, Close returns.
Close_Step ==
    /\ closeI >= 1
    /\ IF closeI <= size
       THEN /\ exits' = CloseIteration(closeI)
            /\ closeI' = closeI + 1
            /\ UNCHANGED closeCalls
       ELSE /\ closeI' = 0
            /\ closeCalls' = closeCalls + 1
            /\ UNCHANGED exits
    /\ UNCHANGED <<size, phase, newI, workers, used, mu, outstanding, t, history>>

\* --------------------------------------------------------------- getPhantom
\* CanLock without the mutex.
NoLock == TRUE

\* mu.Lock() returns once the mutex is free.
CanLock == mu = 0

\* FirstFree with the loop run from the last slot down.
LastFree ==
    IF \E s \in Slots : ~used[s]
    THEN CHOOSE s \in Slots : ~used[s] /\ \A r \in (s + 1)..size : used[r]
    ELSE size + 1

\* FirstFree with the loop started one slot late.
FirstFreeFromSecond ==
    IF \E s \in Slots \ {1} : ~used[s]
    THEN CHOOSE s \in Slots \ {1} : ~used[s] /\ \A r \in 2..(s - 1) : used[r]
    ELSE size + 1

\* The first slot the loop finds free; size + 1 when it finds none.
FirstFree ==
    IF \E s \in Slots : ~used[s]
    THEN CHOOSE s \in Slots : ~used[s] /\ \A r \in 1..(s - 1) : used[r]
    ELSE size + 1

\* mu.Lock()
GP_Lock(c) ==
    /\ t[c].pc = "gp_lock"
    /\ CanLock
    /\ mu' = c
    /\ t' = [t EXCEPT ![c].pc = "gp_scan"]
    /\ UNCHANGED <<poolVars, used, outstanding>>

\* The loop up to the slot whose test !used[i] succeeds, or past the last
\* slot to the error return.
GP_Scan(c) ==
    /\ t[c].pc = "gp_scan"
    /\ LET i == FirstFree IN
       IF i > size
       THEN t' = [t EXCEPT ![c].pc = "gp_unlock", ![c].ret = Nil, ![c].gerr = TRUE]
       ELSE t' = [t EXCEPT ![c].pc = "gp_mark", ![c].i = i]
    /\ UNCHANGED <<poolVars, used, mu, outstanding>>

\* History of the call with record r: a worker is released.
SeeRelease(r) ==
    IF history /\ r.op = "gm" /\ r.pc = "sleep" /\ r.passed = 0
    THEN [r EXCEPT !.passed = 1]
    ELSE r

\* History of the call with record r: another call takes a worker, at its
\* first getPhantom (first) or at a later one.
SeeAcquire(r, first) ==
    IF history /\ first /\ r.passed = 1
    THEN [r EXCEPT !.passed = 2]
    ELSE r

\* used[i] = true; return workers[i], nil
GP_Mark(c) ==
    /\ t[c].pc = "gp_mark"
    /\ used' = [used EXCEPT ![t[c].i] = TRUE]
    /\ outstanding' = outstanding + 1
    /\ t' = [a \in Callers |->
                IF a = c
                THEN [t[c] EXCEPT !.pc = "gp_unlock", !.i = 0,
                                  !.ret = workers[t[c].i], !.gerr = FALSE]
                ELSE SeeAcquire(t[a], t[c].acqCalls = 1)]
    /\ UNCHANGED <<poolVars, mu>>

\* AfterGet with a failed fn() called again at once: no sleep, no attempt++.
AfterGetRetryingAtOnce(op, gerr) ==
    IF op = "get" THEN "done"
    ELSE IF gerr THEN "gp_lock" ELSE "thumb"

\* Where the thread is once fn() has returned: a direct call is over; in try,
\* err == nil returns the worker to GetMeasurements, which goes on into
\* getMeasurementsInternal; else the sleep.
AfterGet(op, gerr) ==
    IF op = "get" THEN "done"
    ELSE IF gerr THEN "sleep" ELSE "thumb"

\* GP_Unlock without the deferred mu.Unlock(): getPhantom returns with the
\* mutex still held.
GP_ReturnLocked(c) ==
    /\ t[c].pc = "gp_unlock"
    /\ LET next == AfterGet(t[c].op, t[c].gerr) IN
       t' = IF next = "thumb"
            THEN [t EXCEPT ![c].pc = next, ![c].phantom = t[c].ret, ![c].ret = Nil,
                           ![c].attempt = 0, ![c].acqCalls = 0, ![c].sleeps = 0,
                           ![c].nrOfTries = 0, ![c].passed = 0]
            ELSE [t EXCEPT ![c].pc = next]
    /\ UNCHANGED <<poolVars, used, mu, outstanding>>

\* The deferred mu.Unlock(), and the return to the caller.  When try returns
\* the worker, phantom is assigned and releasePhantom(phantom) is deferred;
\* try's locals are gone and nrOfTries is not read again.
GP_Unlock(c) ==
    /\ t[c].pc = "gp_unlock"
    /\ mu' = 0
    /\ LET next == AfterGet(t[c].op, t[c].gerr) IN
       t' = IF next = "thumb"
            THEN [t EXCEPT ![c].pc = next, ![c].phantom = t[c].ret, ![c].ret = Nil,
                           ![c].attempt = 0, ![c].acqCalls = 0, ![c].sleeps = 0,
                           ![c].nrOfTries = 0, ![c].passed = 0]
            ELSE [t EXCEPT ![c].pc = next]
    /\ UNCHANGED <<poolVars, used, outstanding>>

\* ----------------------------------------------------------- releasePhantom
\* SlotOf with the loop stopped one slot early.
SlotOfSkippingLast(phantom) ==
    IF \E s \in 1..(size - 1) : workers[s] = phantom
    THEN CHOOSE s \in 1..(size - 1) : workers[s] = phantom
    ELSE size + 1

\* SlotOf with a slot matching only while its flag is in use: a release of a
\* free worker finds no slot.
SlotOfInUse(phantom) ==
    IF \E s \in Slots : workers[s] = phantom /\ used[s]
    THEN CHOOSE s \in Slots : workers[s] = phantom /\ used[s]
    ELSE size + 1

\* SlotOf falling back to the first slot when no worker is phantom.
SlotOfOrFirst(phantom) ==
    IF \E s \in Slots : workers[s] = phantom
    THEN CHOOSE s \in Slots : workers[s] = phantom
    ELSE 1

\* The slot whose worker is phantom; size + 1 when there is none.
SlotOf(phantom) ==
    IF \E s \in Slots : workers[s] = phantom
    THEN CHOOSE s \in Slots : workers[s] = phantom /\ \A r \in 1..(s - 1) : workers[r] # phantom
    ELSE size + 1

\* mu.Lock()
RP_Lock(c) ==
    /\ t[c].pc = "rp_lock"
    /\ CanLock
    /\ mu' = c
    /\ t' = [t EXCEPT ![c].pc = "rp_scan"]
    /\ UNCHANGED <<poolVars, used, outstanding>>

\* RP_Scan with a hand-over: when a call sleeps in try, the worker is given
\* to it with its flag still set, and the sleeper leaves try with the worker.
RP_ScanHandingOver(c) ==
    /\ t[c].pc = "rp_scan"
    /\ LET i == SlotOf(t[c].relArg)
           sleepers == {a \in Callers \ {c} : t[a].op = "gm" /\ t[a].pc = "sleep"}
       IN
       IF i > size
       THEN /\ t' = [t EXCEPT ![c].pc = "rp_unlock", ![c].relErr = "InvalidHandle"]
            /\ UNCHANGED <<used, outstanding>>
       ELSE IF sleepers # {} /\ used[i]
       THEN /\ \E a \in sleepers :
                    t' = [t EXCEPT ![c].pc = "rp_unlock", ![c].relErr = "ok",
                                   ![a].pc = "thumb", ![a].phantom = workers[i],
                                   ![a].attempt = 0, ![a].acqCalls = 0, ![a].sleeps = 0,
                                   ![a].nrOfTries = 0, ![a].gerr = FALSE, ![a].passed = 0]
            /\ UNCHANGED <<used, outstanding>>
       ELSE /\ used' = [used EXCEPT ![i] = FALSE]
            /\ outstanding' = IF used[i] THEN outstanding - 1 ELSE outstanding
            /\ t' = [t EXCEPT ![c].pc = "rp_unlock", ![c].relErr = "ok"]
    /\ UNCHANGED <<poolVars, mu>>

\* The loop: at the slot with workers[i] == phantom, used[i] = false and
\* return nil; past the last slot, the error return.
RP_Scan(c) ==
    /\ t[c].pc = "rp_scan"
    /\ LET i == SlotOf(t[c].relArg) IN
       IF i > size
       THEN /\ t' = [t EXCEPT ![c].pc = "rp_unlock", ![c].relErr = "InvalidHandle"]
            /\ UNCHANGED <<used, outstanding>>
       ELSE /\ used' = [used EXCEPT ![i] = FALSE]
            /\ outstanding' = IF used[i] THEN outstanding - 1 ELSE outstanding
            /\ t' = [a \in Callers |->
                        IF a = c
                        THEN [t[c] EXCEPT !.pc = "rp_unlock", !.relErr = "ok"]
                        ELSE IF used[i] THEN SeeRelease(t[a]) ELSE t[a]]
    /\ UNCHANGED <<poolVars, mu>>

\* The deferred mu.Unlock(), and the return to the caller.
RP_Unlock(c) ==
    /\ t[c].pc = "rp_unlock"
    /\ mu' = 0
    /\ t' = [t EXCEPT ![c].pc = "done"]
    /\ UNCHANGED <<poolVars, used, outstanding>>

\* ------------------------------------------------------------------ callers
\* The caller takes the call's results; the thread is free for another call.
Return(c) ==
    /\ t[c].pc = "done"
    /\ t' = [t EXCEPT ![c] = IdleThread]
    /\ UNCHANGED <<poolVars, used, mu, outstanding>>

\* A direct call of getPhantom.
Direct_Get(c) ==
    /\ phase = "ready"
    /\ t[c].pc = "idle"
    /\ t' = [t EXCEPT ![c].pc = "gp_lock", ![c].op = "get", ![c].acqCalls = 1]
    /\ UNCHANGED <<poolVars, used, mu, outstanding>>

\* A direct call of releasePhantom(h).
Direct_Release(c, h) ==
    /\ phase = "ready"
    /\ t[c].pc = "idle"
    /\ t' = [t EXCEPT ![c].pc = "rp_lock", ![c].op = "rel", ![c].relArg = h,
                      ![c].relCalls = 1]
    /\ UNCHANGED <<poolVars, used, mu, outstanding>>

\* ---------------------------------------------------------- GetMeasurements
\* TriesValid with the comparison against 0.
TriesNonNegative(n) == n >= 0

\* nrOfTries < 1 is refused.
TriesValid(n) == n >= 1

\* The two checks GetMeasurements makes before it touches the pool.
Validate(u, n) ==
    IF ~ParseRequestURI(u) THEN "InvalidURL"
    ELSE IF ~TriesValid(n) THEN "InvalidTries"
    ELSE "NoErr"

\* GMReturn with the error dropped: "return performance, nil" whatever err is.
GMReturnErrorDropped(in) == [hasRes |-> in.hasRes, res |-> in.res, err |-> "NoErr"]

\* What GetMeasurements returns given getMeasurementsInternal's results in:
\* nil and the error, or performance and nil.
GMReturn(in) ==
    IF in.err # "NoErr" THEN ErrReturn(in.err)
    ELSE [hasRes |-> in.hasRes, res |-> in.res, err |-> "NoErr"]

\* TryContinues with < for <=.
TryContinuesStrict(attempt, maxTries) == attempt < maxTries

\* try's loop condition.
TryContinues(attempt, maxTries) == attempt <= maxTries

\* The head of try's loop in thread record r: another fn() call, or the final
\* error, which GetMeasurements returns as it is.
TryHead(r) ==
    IF TryContinues(r.attempt, r.nrOfTries)
    THEN [r EXCEPT !.pc = "gp_lock", !.acqCalls = @ + 1]
    ELSE LET g == ErrReturn("PoolExhausted")
         IN [r EXCEPT !.pc = "done", !.hasRes = g.hasRes, !.err = g.err]

\* The call and its two checks; past them, try is entered with attempt := 1.
\* A parameter no statement has read yet is not in the record: nrOfTries is
\* read by the second check, and thumbnailsDir is handed on unread as far as
\* getThumbnailFile, where GM_Thumb draws the value the call was made with.
GM_Call(c, u, n) ==
    /\ phase = "ready"
    /\ t[c].pc = "idle"
    /\ LET e == Validate(u, n)
           g == ErrReturn(e)
           r == [t[c] EXCEPT !.op = "gm", !.rawurl = u,
                             !.nrOfTries = IF e = "InvalidURL" THEN 0 ELSE n,
                             !.hasRes = g.hasRes, !.err = g.err]
       IN t' = [t EXCEPT ![c] = IF e = "NoErr" THEN TryHead([r EXCEPT !.attempt = 1])
                                ELSE [r EXCEPT !.pc = "done"]]
    /\ UNCHANGED <<poolVars, used, mu, outstanding>>

\* time.Sleep(200 * time.Millisecond); attempt++; back to the head of the loop.
TRY_Sleep(c) ==
    /\ t[c].pc = "sleep"
    /\ t' = [t EXCEPT ![c] = TryHead([t[c] EXCEPT !.sleeps = @ + 1, !.attempt = @ + 1,
                                                  !.gerr = FALSE])]
    /\ UNCHANGED <<poolVars, used, mu, outstanding>>

\* DeferredExit without the defer: GetMeasurements returns with its worker.
ExitWithoutRelease(e) == "done"

\* DeferredExit with phantom.Run called again after an engine failure.
ExitRetryingEngine(e) == IF e = "EngineExecutionError" THEN "run" ELSE "rp_lock"

\* DeferredExit with the release called on the success path only, not deferred.
ExitReleasingOnSuccessOnly(e) == IF e = "NoErr" THEN "rp_lock" ELSE "done"

\* Where GetMeasurements goes once its results are set: the deferred
\* releasePhantom(phantom) runs whatever the error is.
DeferredExit(e) == "rp_lock"

\* GetMeasurements sets its results r after acquisition: the deferred call
\* starts.  No parameter is read after this.
Leave(c, r) ==
    LET next == DeferredExit(r.err) IN
    [t EXCEPT ![c].pc = next,
              ![c].rawurl = <<>>, ![c].thumbnailsDir = "", ![c].thumbnailFile = "",
              ![c].hasRes = r.hasRes, ![c].res = r.res, ![c].err = r.err,
              ![c].relArg = IF next = "rp_lock" THEN t[c].phantom ELSE @,
              ![c].relCalls = IF next = "rp_lock" THEN @ + 1 ELSE @]

\* GM_Thumb with the error of ioutil.TempFile ignored: the call goes on to
\* phantom.Run without a file.
GM_ThumbIgnoringError(c, d, ok) ==
    /\ t[c].pc = "thumb"
    /\ d = "" => ok
    /\ t' = [t EXCEPT ![c].pc = "run", ![c].thumbnailsDir = d,
                      ![c].thumbnailFile = IF ok THEN TempName(d) ELSE ""]
    /\ UNCHANGED <<poolVars, used, mu, outstanding>>

\* getThumbnailFile(thumbnailsDir), d the directory the call was made with:
\* no directory, no file; else ioutil.TempFile makes the placeholder (ok) or
\* fails.
GM_Thumb(c, d, ok) ==
    /\ t[c].pc = "thumb"
    /\ IF d = ""
       THEN /\ ok
            /\ t' = [t EXCEPT ![c].pc = "run", ![c].thumbnailsDir = d,
                              ![c].thumbnailFile = ""]
       ELSE IF ok
       THEN t' = [t EXCEPT ![c].pc = "run", ![c].thumbnailsDir = d,
                           ![c].thumbnailFile = TempName(d)]
       ELSE t' = Leave(c, GMReturn(ErrReturn("ThumbnailIOError")))
    /\ UNCHANGED <<poolVars, used, mu, outstanding>>

\* phantom.Run(script, &result) fails, or stores out in result, which is then
\* parsed; GetMeasurements sets its results.
GM_Run(c, ok, out) ==
    /\ t[c].pc = "run"
    /\ t' = [Leave(c, GMReturn(Internal(ok, out, t[c].thumbnailFile))) EXCEPT
                ![c].runCalls = @ + 1]
    /\ UNCHANGED <<poolVars, used, mu, outstanding>>

\* ----------------------------------------------------------- specifications
PoolCode(c) ==
    \/ GP_Lock(c) \/ GP_Scan(c) \/ GP_Mark(c) \/ GP_Unlock(c)
    \/ RP_Lock(c) \/ RP_Scan(c) \/ RP_Unlock(c)
    \/ Return(c)

\* The package as its users drive it: New, then GetMeasurements from every
\* thread.
Next ==
    \/ \E ok \in BOOLEAN : New_Start(ok)
    \/ \E c \in Callers :
        \/ \E u \in RawUrls, n \in TryValues : GM_Call(c, u, n)
        \/ TRY_Sleep(c)
        \/ \E d \in ThumbDirs, ok \in BOOLEAN : GM_Thumb(c, d, ok)
        \/ \E ok \in BOOLEAN, out \in EngineOutputs : GM_Run(c, ok, out)
        \/ PoolCode(c)

Spec == Init /\ [][Next]_vars

\* workers_pool.go driven directly: New, then getPhantom, releasePhantom(h)
\* for every handle h, and Close, from every thread.
NextPool ==
    \/ \E ok \in BOOLEAN : New_Start(ok)
    \/ Close_Call
    \/ Close_Step
    \/ \E c \in Callers :
        \/ Direct_Get(c)
        \/ \E h \in Handles : Direct_Release(c, h)
        \/ PoolCode(c)

SpecPool == Init /\ [][NextPool]_vars

\* Spec with the history of overtaken calls recorded.
SpecOrder == InitOrder /\ [][Next]_vars

\* ------------------------------------------------------------------ claims
UsedSlots == {s \in Slots : used[s]}
AllUsed == \A s \in Slots : used[s]
PoolHandles == {workers[s] : s \in Slots}
GM(c) == t[c].op = "gm"

\* The positions of a GetMeasurements call inside try.
InTry(c) == t[c].pc \in {"gp_lock", "gp_scan", "gp_mark", "gp_unlock", "sleep"}
\* The positions of a GetMeasurements call whose results are set.
ResultsSet(c) == t[c].pc \in {"rp_lock", "rp_scan", "rp_unlock", "done"}
\* The call was over before it asked for a worker, or try gave up.
EndedWithoutWorker(c) == t[c].pc = "done" /\ t[c].phantom = Nil
\* Time the call has spent in time.Sleep, in milliseconds.
Elapsed(c) == t[c].sleeps * SleepMs

\* Between mu.Lock() and mu.Unlock() of getPhantom or releasePhantom.
InCriticalSection(c) == t[c].pc \in {"gp_scan", "gp_mark", "gp_unlock", "rp_scan", "rp_unlock"}

\* The worker thread c holds: from the mark of its slot to the clearing of it.
Held(c) ==
    IF t[c].pc = "gp_unlock" /\ ~t[c].gerr THEN t[c].ret
    ELSE IF t[c].pc \in {"thumb", "run", "rp_lock", "rp_scan"} THEN t[c].phantom
    ELSE Nil

\* C1: in a pool of size N the successful acquisitions not yet undone by a
\* release number exactly the flags in use, so never more than N; a
\* getPhantom that scans a pool with every flag in use fails and changes no
\* flag, and one that scans a pool with a free flag goes on to take a slot.
C1_AtMostN ==
    /\ [](/\ outstanding = Cardinality(UsedSlots)
          /\ outstanding <= size
          /\ \A c \in Callers :
                t[c].pc = "gp_unlock" =>
                    IF t[c].gerr THEN AllUsed /\ t[c].ret = Nil
                    ELSE t[c].ret \in PoolHandles /\ t[c].ret # Nil)
    /\ [][\A c \in Callers :
            GP_Scan(c) =>
                /\ used' = used
                /\ (AllUsed => t'[c].pc = "gp_unlock" /\ t'[c].gerr)
                /\ (~AllUsed => t'[c].pc = "gp_mark")]_vars

C1_Witness ==
    \E c \in Callers :
        /\ size = MaxPoolSize
        /\ t[c].op = "get" /\ t[c].pc = "gp_unlock" /\ t[c].gerr
        /\ AllUsed

\* C2: a GetMeasurements call that got a worker has called releasePhantom
\* exactly once, with that worker, by the time it returns, whatever its
\* result; a call that got no worker has not called it.
C2_ReleaseOnce ==
    \A c \in Callers :
        GM(c) =>
            /\ t[c].relCalls <= 1
            /\ (t[c].relCalls = 1 => t[c].phantom # Nil /\ t[c].relArg = t[c].phantom)
            /\ (t[c].pc = "done" =>
                    IF t[c].phantom # Nil
                    THEN t[c].relCalls = 1 /\ t[c].relErr # "none"
                    ELSE t[c].relCalls = 0)

C2_Witness ==
    \E c \in Callers :
        /\ GM(c) /\ t[c].pc = "done"
        /\ t[c].err = "EngineExecutionError"
        /\ t[c].phantom # Nil /\ t[c].relCalls = 1

\* C3: no two GetMeasurements calls hold the same worker at the same time,
\* and a held worker's flag is in use; a thread between Lock and Unlock of
\* getPhantom or releasePhantom owns the mutex, so no two are there at once.
C3_Exclusive ==
    \A c \in Callers :
        /\ InCriticalSection(c) => mu = c
        /\ Held(c) # Nil =>
            /\ Held(c) \in PoolHandles
            /\ used[Held(c)]
            /\ \A d \in Callers \ {c} : Held(d) # Held(c)

C3_Witness ==
    \E c, d \in Callers :
        /\ c # d
        /\ t[c].pc = "run"
        /\ t[d].pc = "gp_unlock" /\ ~t[d].gerr
        /\ Held(c) # Held(d)

\* C4: releasePhantom with a handle that is no worker of the pool returns the
\* InvalidHandle error and no step of the call changes a flag.
C4_ForeignRelease ==
    /\ [](\A c \in Callers :
            (t[c].op = "rel" /\ t[c].pc \in {"rp_unlock", "done"}
                /\ t[c].relArg \notin PoolHandles)
            => t[c].relErr = "InvalidHandle")
    /\ [][\A c \in Callers :
            (t[c].op = "rel" /\ t[c].relArg \notin PoolHandles
                /\ (RP_Lock(c) \/ RP_Scan(c) \/ RP_Unlock(c)))
            => used' = used]_vars

C4_Witness ==
    \E c \in Callers :
        /\ t[c].op = "rel" /\ t[c].pc = "done"
        /\ t[c].relArg = Foreign /\ t[c].relErr = "InvalidHandle"
        /\ AllUsed

\* C5: a GetMeasurements call with a URL the URL check accepts and
\* nrOfTries < 1 ends with the InvalidTries error and no result, having
\* called neither getPhantom nor releasePhantom; no call with nrOfTries < 1
\* is ever inside try.
C5_InvalidTries ==
    \A c \in Callers :
        GM(c) =>
            /\ (EndedWithoutWorker(c) /\ ParseRequestURI(t[c].rawurl) /\ t[c].nrOfTries < 1)
                => /\ t[c].err = "InvalidTries"
                   /\ ~t[c].hasRes
                   /\ t[c].acqCalls = 0 /\ t[c].relCalls = 0
            /\ InTry(c) => t[c].nrOfTries >= 1

C5_Witness ==
    \E c, d \in Callers :
        /\ GM(c) /\ t[c].pc = "done" /\ t[c].err = "InvalidTries" /\ t[c].nrOfTries = 0
        /\ GM(d) /\ t[d].pc = "done" /\ t[d].err = "InvalidTries" /\ t[d].nrOfTries = -1

\* A syntactically well-formed absolute URL: a scheme, "//" and a host.
IsAbsoluteURL(raw) ==
    LET s == getScheme(raw) IN
    /\ ~s.err
    /\ s.scheme # <<>>
    /\ HasPrefix(s.rest, <<"/", "/">>)
    /\ Len(s.rest) > 2

\* The positions at which the record still holds the call's rawurl.
UrlLive(c) ==
    GM(c) /\ (InTry(c) \/ t[c].pc \in {"thumb", "run"} \/ EndedWithoutWorker(c))

\* C6: a GetMeasurements call with a URL that is not a well-formed absolute
\* URL ends with the InvalidURL error without calling getPhantom (stated for
\* the calls that the check of nrOfTries does not end).
C6_NonAbsoluteRejected ==
    \A c \in Callers :
        (UrlLive(c) /\ ~IsAbsoluteURL(t[c].rawurl) /\ t[c].err # "InvalidTries") =>
            /\ t[c].pc = "done"
            /\ t[c].err = "InvalidURL"
            /\ t[c].acqCalls = 0

C8_CloseExitsOnce ==
    \A s \in Slots :
        IF workers[s] = Nil THEN exits[s] = 0
        ELSE exits[s] = closeCalls + (IF closeI > s THEN 1 ELSE 0)

C8_Witness ==
    /\ size = MaxPoolSize
    /\ closeCalls = 1 /\ closeI = 0
    /\ \A s \in Slots : workers[s] # Nil /\ exits[s] = 1

\* C9: GetMeasurements returns either measurements and no error, or an error
\* of its taxonomy and no measurements, never both and never neither.
C9_ResultXorError ==
    \A c \in Callers :
        (GM(c) /\ ResultsSet(c)) =>
            /\ t[c].hasRes <=> t[c].err = "NoErr"
            /\ ~t[c].hasRes => t[c].res = ZeroPerf
            /\ t[c].err \in {"NoErr", "InvalidURL", "InvalidTries", "PoolExhausted",
                             "ThumbnailIOError", "EngineExecutionError", "MarshalError"}

C9_Witness ==
    \E c, d \in Callers :
        /\ GM(c) /\ t[c].pc = "done" /\ t[c].err = "MarshalError" /\ ~t[c].hasRes
        /\ GM(d) /\ t[d].pc = "done" /\ t[d].err = "NoErr" /\ t[d].hasRes

\* C10: in the measurements a successful call returns, loadTimeDuration is
\* loadTime milliseconds and every response's runningTimeDuration is its
\* runningTime milliseconds.
C10_DurationsStored ==
    \A c \in Callers :
        (GM(c) /\ t[c].pc = "done" /\ t[c].hasRes) =>
            /\ t[c].res.LoadTimeDuration = t[c].res.LoadTime * Millisecond
            /\ \A k \in DOMAIN t[c].res.Responses :
                t[c].res.Responses[k].RunningTimeDuration
                    = t[c].res.Responses[k].RunningTime * Millisecond

\* ------------------------------------------------------------------ fairness
\* The steps of thread c that no other thread can disable: the Go scheduler
\* runs a runnable goroutine, time.Sleep and ioutil.TempFile return.
ThreadStep(c) ==
    \/ TRY_Sleep(c)
    \/ \E d \in ThumbDirs, ok \in BOOLEAN : GM_Thumb(c, d, ok)
    \/ GP_Scan(c) \/ GP_Mark(c) \/ GP_Unlock(c)
    \/ RP_Scan(c) \/ RP_Unlock(c)

\* mu.Lock() is enabled only while the mutex is free; sync.Mutex hands the
\* mutex to a goroutine that has waited (starvation mode), so a thread that
\* finds it free again and again gets it.  Nothing is assumed of new calls,
\* of the caller taking the results, or of phantom.Run.
Fairness ==
    \A c \in Callers :
        /\ WF_vars(ThreadStep(c))
        /\ SF_vars(GP_Lock(c))
        /\ SF_vars(RP_Lock(c))

SpecFair == Spec /\ Fairness

\* phantom.Run returns in every call.
EngineReturns ==
    \A c \in Callers : WF_vars(\E ok \in BOOLEAN, out \in EngineOutputs : GM_Run(c, ok, out))

\* try has returned the worker to GetMeasurements.
Acquired(c) == GM(c) /\ t[c].phantom # Nil
\* try has given up after nrOfTries calls of getPhantom.
GaveUp(c) ==
    /\ GM(c) /\ t[c].pc = "done" /\ t[c].err = "PoolExhausted"
    /\ t[c].acqCalls = t[c].nrOfTries

\* C11: a GetMeasurements call that has entered try leaves it, with a worker
\* or with the PoolExhausted error after nrOfTries attempts, even when the
\* other calls never return from the engine; and if every phantom.Run
\* returns, every call made reaches its return.
C11_BoundedWait ==
    /\ \A c \in Callers : (GM(c) /\ InTry(c)) ~> (Acquired(c) \/ GaveUp(c))
    /\ EngineReturns => \A c \in Callers : (t[c].pc # "idle") ~> (t[c].pc = "done")

C11_Witness ==
    \E c, d \in Callers :
        /\ GaveUp(c) /\ t[c].nrOfTries = MaxTries
        /\ GM(d) /\ t[d].pc = "run"

\* The calls that are inside phantom.Run.
InEngine == {c \in Callers : GM(c) /\ t[c].pc = "run"}

\* C12: a call that is in phantom.Run, in time.Sleep or in getThumbnailFile
\* does not hold the mutex; while a call is in phantom.Run, a thread at
\* mu.Lock() of getPhantom or releasePhantom can take the mutex unless a
\* third thread is inside its scan; and the calls inside phantom.Run are
\* never more than size.
C12_LockOnlyInScan ==
    /\ \A c \in Callers : t[c].pc \in {"sleep", "thumb", "run"} => mu # c
    /\ \A c \in InEngine : \A d \in Callers :
            t[d].pc \in {"gp_lock", "rp_lock"} =>
                \/ ENABLED (GP_Lock(d) \/ RP_Lock(d))
                \/ \E e \in Callers \ {c} : InCriticalSection(e) /\ mu = e
    /\ Cardinality(InEngine) <= size

C12_Witness ==
    /\ size = MaxPoolSize
    /\ Cardinality(InEngine) = MaxPoolSize
    /\ mu = 0

\* The errors of phantom.Run and of the parse of its result.
EngineErrors == {"EngineExecutionError", "MarshalError"}

\* C13: a GetMeasurements call calls phantom.Run at most once; when the run
\* or the parse of its result has failed, exactly one run was made, the
\* error is the call's result and the call is in its deferred release or at
\* its return, not in getPhantom or phantom.Run again; a call that holds a
\* worker is not in try.
C13_NoRetryOfEngine ==
    \A c \in Callers :
        GM(c) =>
            /\ t[c].runCalls <= 1
            /\ t[c].err \in EngineErrors =>
                /\ ResultsSet(c)
                /\ t[c].runCalls = 1
                /\ ~t[c].hasRes
            /\ t[c].phantom # Nil => ~InTry(c) /\ t[c].acqCalls = 0
            /\ t[c].runCalls = 1 => ResultsSet(c)

C13_Witness ==
    \E c, d \in Callers :
        /\ GM(c) /\ t[c].pc = "done" /\ t[c].err = "EngineExecutionError" /\ t[c].runCalls = 1
        /\ GM(d) /\ t[d].pc = "done" /\ t[d].err = "MarshalError" /\ t[d].runCalls = 1

\* No caller has the pool: no call was made on it, no flag is set.
PoolUnused ==
    /\ \A c \in Callers : t[c] = IdleThread
    /\ \A s \in Slots : ~used[s]
    /\ mu = 0

\* C14: when New has returned, every slot holds a started worker, each a
\* different one, and at the return every flag is free; when a
\* phantomjs.Start() has failed New has panicked, and a pool that New has not
\* returned is never in a caller's hands.
C14_AllOrNothing ==
    /\ [](/\ phase = "ready" =>
                /\ \A s \in Slots : workers[s] # Nil
                /\ \A r, s \in Slots : workers[r] = workers[s] => r = s
          /\ phase = "panicked" => \E s \in Slots : workers[s] = Nil
          /\ phase # "ready" => PoolUnused)
    /\ [][(phase = "new" /\ phase' = "ready") =>
            /\ \A s \in Slots : workers'[s] # Nil /\ ~used'[s]
            /\ newI' = size + 1]_vars
    /\ [][phase = "panicked" => phase' = "panicked"]_vars

C14_Witness ==
    /\ size = MaxPoolSize
    /\ phase = "panicked"
    /\ workers[1] # Nil
    /\ workers[size] = Nil

\* C15: the step of getPhantom that takes a slot takes the lowest slot whose
\* flag is free, sets that flag and no other, and returns that slot's
\* worker; no other step of getPhantom writes a flag, no step writes a
\* worker, and while a getPhantom call owns the mutex no other thread writes
\* a flag, so a call that fails returns with the flags as it found them.
C15_AcquireFrame ==
    /\ [][\A c \in Callers :
            GP_Mark(c) =>
                LET i == t[c].i IN
                /\ i \in Slots
                /\ ~used[i]
                /\ \A r \in 1..(i - 1) : used[r]
                /\ used' = [used EXCEPT ![i] = TRUE]
                /\ t'[c].ret = workers[i] /\ ~t'[c].gerr]_vars
    /\ [][\A c \in Callers :
            (GP_Lock(c) \/ GP_Scan(c) \/ GP_Unlock(c)) => used' = used]_vars
    /\ [][\A c \in Callers :
            (t[c].pc \in {"gp_scan", "gp_mark", "gp_unlock"} /\ used' # used)
                => GP_Mark(c)]_vars
    /\ [][phase = "ready" => workers' = workers]_vars

C15_Witness ==
    \E c \in Callers :
        /\ size = MaxPoolSize
        /\ t[c].op = "get" /\ t[c].pc = "gp_unlock" /\ ~t[c].gerr
        /\ t[c].ret = workers[1]
        /\ UsedSlots = {1}

\* The flags after a release of the worker in slot i.
Released(u, i) == [u EXCEPT ![i] = FALSE]

\* C16: the scan of a releasePhantom call whose argument is a worker of the
\* pool returns no error and clears the flag of that worker's slot and no
\* other, in use or not; when the flag is already free the flags stay as
\* they are, and a release after a release changes nothing more.
C16_ReleaseIdempotent ==
    /\ [][\A c \in Callers :
            (RP_Scan(c) /\ t[c].relArg \in PoolHandles) =>
                LET i == SlotOf(t[c].relArg) IN
                /\ i \in Slots /\ workers[i] = t[c].relArg
                /\ t'[c].relErr = "ok"
                /\ used' = Released(used, i)
                /\ (~used[i] => used' = used)
                /\ Released(used', i) = used'
                /\ workers' = workers]_vars
    /\ [](\A c \in Callers :
            (t[c].pc \in {"rp_unlock", "done"} /\ t[c].relCalls = 1
                /\ t[c].relArg \in PoolHandles)
            => t[c].relErr = "ok")

C16_Witness ==
    \E c, d \in Callers :
        /\ c # d
        /\ t[c].op = "rel" /\ t[c].pc = "done" /\ t[c].relErr = "ok"
        /\ t[d].op = "rel" /\ t[d].pc = "done" /\ t[d].relErr = "ok"
        /\ t[c].relArg = t[d].relArg
        /\ t[c].relArg \in PoolHandles
        /\ UsedSlots = {}

\* Call a has been overtaken: a worker was released while a slept between
\* two attempts, and a call whose first getPhantom came after that took a
\* worker before a did.
Overtaken(a) == t[a].passed = 2

\* C17: a release wakes no sleeping call and reserves the worker for none:
\* it clears the flag and leaves every other thread where it is, so the
\* worker goes to the first call that scans, whenever that call began; the
\* history is recorded only for calls in try that have failed an attempt,
\* and a call that is overtaken and gives up has still made all its
\* nrOfTries attempts.
C17_NoOrderAmongWaiters ==
    /\ [][\A c \in Callers :
            (RP_Scan(c) /\ t[c].relArg \in PoolHandles) =>
                /\ ~used'[SlotOf(t[c].relArg)]
                /\ \A a \in Callers \ {c} :
                    /\ t'[a].pc = t[a].pc
                    /\ t'[a].phantom = t[a].phantom
                    /\ t'[a].attempt = t[a].attempt]_vars
    /\ [](\A a \in Callers :
            /\ t[a].passed \in 0..2
            /\ t[a].passed # 0 =>
                /\ GM(a) /\ t[a].phantom = Nil /\ t[a].acqCalls >= 1
                /\ InTry(a) \/ GaveUp(a)
            /\ (Overtaken(a) /\ t[a].pc = "done") =>
                /\ t[a].err = "PoolExhausted"
                /\ t[a].acqCalls = t[a].nrOfTries)

C17_Witness ==
    \E a, b \in Callers :
        /\ a # b
        /\ GaveUp(a) /\ Overtaken(a) /\ t[a].nrOfTries = MaxTries
        /\ GM(b) /\ Held(b) # Nil

\* C18: when ioutil.TempFile fails, which needs a directory, the call's
\* result is the ThumbnailIOError, phantom.Run is not called, and the
\* deferred release is called with the call's worker, clears its flag and
\* returns no error before the call returns; without a directory no file is
\* named, phantom.Run gets the empty name, and the measurements returned
\* have an empty ThumbnailFile.
C18_ThumbnailFailure ==
    /\ [](\A c \in Callers :
            GM(c) =>
                /\ t[c].err = "ThumbnailIOError" =>
                    /\ ResultsSet(c)
                    /\ ~t[c].hasRes
                    /\ t[c].runCalls = 0
                    /\ t[c].phantom # Nil
                    /\ t[c].relCalls = 1 /\ t[c].relArg = t[c].phantom
                    /\ t[c].pc = "done" => t[c].relErr = "ok"
                /\ (t[c].pc = "run" /\ t[c].thumbnailsDir = "") => t[c].thumbnailFile = "")
    /\ [][\A c \in Callers : \A d \in ThumbDirs :
            (t[c].pc = "thumb" /\ GM_Thumb(c, d, FALSE)) =>
                /\ d # ""
                /\ t'[c].pc = "rp_lock"
                /\ t'[c].err = "ThumbnailIOError"]_vars
    /\ [][\A c \in Callers :
            (t[c].err = "ThumbnailIOError" /\ RP_Scan(c)) =>
                ~used'[SlotOf(t[c].phantom)]]_vars
    /\ [][\A c \in Callers :
            (GM(c) /\ t[c].pc = "run" /\ t[c].thumbnailsDir = "" /\ t'[c].hasRes) =>
                t'[c].res.ThumbnailFile = ""]_vars

C18_Witness ==
    \E c \in Callers :
        /\ GM(c) /\ t[c].pc = "done"
        /\ t[c].err = "ThumbnailIOError"
        /\ t[c].runCalls = 0
        /\ t[c].relErr = "ok"
        /\ UsedSlots = {}

\* The slots whose worker a GetMeasurements call holds.
HeldSlots ==
    {s \in Slots : \E c \in Callers : GM(c) /\ Held(c) # Nil /\ Held(c) = workers[s]}
\* No GetMeasurements call is between its call and its return.
NoCallInProgress == \A c \in Callers : t[c].pc \in {"idle", "done"}

\* C19: with the pool used through GetMeasurements only, the slots whose
\* flag is in use are exactly the slots whose worker a call in progress
\* holds, from the mark in getPhantom to the clearing in releasePhantom; so
\* when no call is in progress every flag is free.
C19_FlagsAreHeldWorkers ==
    /\ UsedSlots = HeldSlots
    /\ Cardinality(UsedSlots) = Cardinality({c \in Callers : Held(c) # Nil})
    /\ NoCallInProgress => UsedSlots = {}

C19_Witness ==
    \E c, d \in Callers :
        /\ size = MaxPoolSize
        /\ GM(c) /\ t[c].pc = "run"
        /\ GM(d) /\ t[d].pc = "done" /\ t[d].phantom # Nil
        /\ UsedSlots = {t[c].phantom}

\* C20: the releasePhantom call deferred in GetMeasurements gets the worker
\* that getPhantom returned to this call, a worker of the pool; its scan
\* finds that worker's slot with the flag still in use and clears that flag
\* and no other; it never returns the InvalidHandle error; and workers is
\* not written once New has returned.
C20_DeferredReleaseSucceeds ==
    /\ [](\A c \in Callers :
            GM(c) =>
                /\ t[c].relErr # "InvalidHandle"
                /\ t[c].relCalls = 1 =>
                    /\ t[c].relArg = t[c].phantom
                    /\ t[c].relArg # Nil
                    /\ t[c].relArg \in PoolHandles
                /\ t[c].pc \in {"rp_unlock", "done"} /\ t[c].relCalls = 1
                    => t[c].relErr = "ok")
    /\ [][\A c \in Callers :
            (GM(c) /\ RP_Scan(c)) =>
                LET i == SlotOf(t[c].relArg) IN
                /\ i \in Slots
                /\ used[i]
                /\ used' = [used EXCEPT ![i] = FALSE]]_vars
    /\ [][phase = "ready" => workers' = workers /\ size' = size]_vars

C20_Witness ==
    \E c \in Callers :
        /\ size = MaxPoolSize
        /\ GM(c) /\ t[c].pc = "done"
        /\ t[c].phantom = workers[size]
        /\ t[c].relArg = t[c].phantom /\ t[c].relErr = "ok"
        /\ ~used[size]

====
